---------------------------- MODULE Spec2Model ----------------------------
(***************************************************************************)
(* Trade_Journal: the text-block parser of formatter.py and the journal    *)
(* script of trading_journal.py (record store and upload loops).           *)
(*                                                                         *)
(* Text.  A Python str is a sequence of characters.  A character is one of *)
(*   NL     the line feed "\n",                                            *)
(*   SP     a blank " " (any whitespace that is not a line boundary),      *)
(*   FF     the form feed "\f": whitespace for str.strip and for \s, and   *)
(*          a line boundary for str.splitlines,                            *)
(*   Glyph  the bullet separator,                                          *)
(*   a word: a maximal run of other characters, written as the TLA+ string *)
(*          of that run ("Type", "Position effect", "$94.00").  The inputs *)
(*          never put two words next to each other with only blanks in     *)
(*          between, so a str equals the Python literal "w" exactly when   *)
(*          it is the one-character sequence <<"w">>.                      *)
(* A text file is the sequence of its lines (each a str free of NL); read  *)
(* joins them with NL.                                                     *)
(***************************************************************************)
EXTENDS Integers, Sequences, FiniteSets, TLC

VARIABLES
    file,          \* formatter.py: the lines of the file at `path`
    pc,            \* formatter.py: position in parse_trade_file
    trade_blocks,  \* formatter.py:31
    all_trades,    \* formatter.py:33
    bi,            \* formatter.py:35  index (1-based) of the block the for loop is at
    lines,         \* formatter.py:38,41
    parsed,        \* formatter.py:47
    idx,           \* formatter.py:59  the cursor, 0-based as in the source
    li,            \* formatter.py:60  index (1-based) of the label the for loop is at
    db,            \* trading_journal.py:15  the file trades.db
    app_pc,        \* trading_journal.py: position in the script
    uploaded_json, \* trading_journal.py:107
    uploaded_txt,  \* trading_journal.py:209
    clicked,       \* the Save button whose click started this run of the script
    buttons,       \* the Save buttons this run has put on the page
    fi,            \* trading_journal.py:115,218  index (1-based) of the file a loop is at
    errors,        \* the st.error messages of this run
    processed,     \* the names of the files whose pass of a loop this run has finished
    trades,        \* trading_journal.py:317
    inserted       \* history: the insert_trade calls, in order

parserVars == <<file, pc, trade_blocks, all_trades, bi, lines, parsed, idx, li>>

appVars ==
    <<db, app_pc, uploaded_json, uploaded_txt, clicked, buttons, fi, errors,
      processed, trades, inserted>>

vars ==
    <<file, pc, trade_blocks, all_trades, bi, lines, parsed, idx, li,
      db, app_pc, uploaded_json, uploaded_txt, clicked, buttons, fi, errors,
      processed, trades, inserted>>

---------------------------------------------------------------------------
(* Characters and the str methods the parser uses                          *)

NL == "\n"
SP == " "
FF == "\f"
Glyph == "·"

IsSpace(c) == c \in {SP, NL, FF}
IsLineBreak(c) == c \in {NL, FF}

Min(S) == CHOOSE m \in S : \A n \in S : m <= n
Max(S) == CHOOSE m \in S : \A n \in S : n <= m

\* The str made of the single word w: the Python literal "w".
S(w) == <<w>>

RECURSIVE lstrip(_)
lstrip(s) == IF s # <<>> /\ IsSpace(Head(s)) THEN lstrip(Tail(s)) ELSE s

RECURSIVE rstrip(_)
rstrip(s) ==
    IF s # <<>> /\ IsSpace(s[Len(s)]) THEN rstrip(SubSeq(s, 1, Len(s) - 1)) ELSE s

strip(s) == rstrip(lstrip(s))

RECURSIVE splitlines(_)
splitlines(s) ==
    IF s = <<>> THEN <<>>
    ELSE LET brk == {j \in 1..Len(s) : IsLineBreak(s[j])}
         IN  IF brk = {} THEN <<s>>
             ELSE <<SubSeq(s, 1, Min(brk) - 1)>>
                      \o splitlines(SubSeq(s, Min(brk) + 1, Len(s)))

\* f.read() of a text file: its lines, each followed by a line feed except
\* the last.
RECURSIVE read(_)
read(f) ==
    IF f = <<>> THEN <<>>
    ELSE IF Len(f) = 1 THEN f[1]
    ELSE f[1] \o <<NL>> \o read(Tail(f))

\* The end of the match of the pattern \n\s*\n+ that starts at position i
\* of s, or 0 when there is none.  \s* is greedy and takes the whole
\* whitespace run after i; it gives characters back until \n+ finds a line
\* feed, which is the last line feed of that run.
MatchEnd(s, i) ==
    IF s[i] # NL THEN 0
    ELSE LET run == {k \in i..Len(s) : \A j \in (i + 1)..k : IsSpace(s[j])}
             nls == {j \in (i + 1)..Max(run) : s[j] = NL}
         IN  IF nls = {} THEN 0 ELSE Max(nls)

\* re.split(r'\n\s*\n+', s): the pieces of s between the non-overlapping
\* matches, leftmost first; start is where the current piece begins and i
\* the position the scan is at.
RECURSIVE re_split_from(_, _, _)
re_split_from(s, start, i) ==
    IF i > Len(s) THEN <<SubSeq(s, start, Len(s))>>
    ELSE IF MatchEnd(s, i) = 0 THEN re_split_from(s, start, i + 1)
    ELSE <<SubSeq(s, start, i - 1)>>
             \o re_split_from(s, MatchEnd(s, i) + 1, MatchEnd(s, i) + 1)

re_split(s) == re_split_from(s, 1, 1)

---------------------------------------------------------------------------
(* parse_trade_file                                                        *)

labels ==
    << "Type", "Position effect", "Time in force", "Submitted", "Quantity",
       "Account", "Status", "Filled quantity", "Filled", "Limit price",
       "Est cost", "Est regulatory fees" >>

NonEmpty(line) == line # <<>>
NoGlyph(line) == \A k \in 1..Len(line) : line[k] # Glyph

\* Lines 37-41: the lines of a block, stripped, without the empty ones and
\* without those that contain the glyph.
StripAll(ls) == [k \in 1..Len(ls) |-> strip(ls[k])]

\* A faulty variant: the glyph lines are kept.
FilterLines_keepGlyph(block) ==
    SelectSeq(StripAll(splitlines(block)), NonEmpty)

FilterLines(block) ==
    SelectSeq(SelectSeq(StripAll(splitlines(block)), NonEmpty), NoGlyph)

\* A faulty variant: a block of exactly three lines is skipped too.
TooShort_atMost3(ls) == Len(ls) <= 3

\* Line 44.
TooShort(ls) == Len(ls) < 3

\* A faulty variant: the cursor starts at the first line of the block.
BlockStart_cursor0(ls) ==
    [ parsed |-> [k \in {"header", "Total Cost", "Quantity + Price"} |->
                    CASE k = "header" -> ls[1]
                      [] k = "Total Cost" -> ls[2]
                      [] k = "Quantity + Price" -> ls[3]],
      idx |-> 0 ]

\* Lines 47-59: the record with its three positional fields, and the
\* cursor at the fourth line.
BlockStart(ls) ==
    [ parsed |-> [k \in {"header", "Total Cost", "Quantity + Price"} |->
                    CASE k = "header" -> ls[1]
                      [] k = "Total Cost" -> ls[2]
                      [] k = "Quantity + Price" -> ls[3]],
      idx |-> 3 ]

\* Lines 62-63: the while loop.
RECURSIVE Advance(_, _, _)
Advance(ls, i, label) ==
    IF i < Len(ls) /\ ls[i + 1] # S(label) THEN Advance(ls, i + 1, label) ELSE i

\* A faulty variant: every label is searched from the fourth line again.
ScanLabel_rescan(ls, i, label, rec) ==
    LET j == Advance(ls, 3, label)
    IN  IF j < Len(ls) /\ ls[j + 1] = S(label) /\ (j + 1) < Len(ls)
        THEN [parsed |-> (label :> ls[j + 2]) @@ rec, idx |-> j + 2]
        ELSE [parsed |-> rec, idx |-> j + 1]

\* A faulty variant: the value is taken after the last occurrence of the label.
ScanLabel_last(ls, i, label, rec) ==
    LET occ == {j \in i..(Len(ls) - 2) : ls[j + 1] = S(label)}
    IN  IF occ # {}
        THEN [parsed |-> (label :> ls[Max(occ) + 2]) @@ rec, idx |-> Max(occ) + 2]
        ELSE [parsed |-> rec, idx |-> Advance(ls, i, label) + 1]

\* A faulty variant: a line matches a label whatever its letter case.
Fold(line) == IF line = S("type") THEN S("Type") ELSE line
RECURSIVE Advance_fold(_, _, _)
Advance_fold(ls, i, label) ==
    IF i < Len(ls) /\ Fold(ls[i + 1]) # S(label)
    THEN Advance_fold(ls, i + 1, label) ELSE i
ScanLabel_fold(ls, i, label, rec) ==
    LET j == Advance_fold(ls, i, label)
    IN  IF j < Len(ls) /\ Fold(ls[j + 1]) = S(label) /\ (j + 1) < Len(ls)
        THEN [parsed |-> (label :> ls[j + 2]) @@ rec, idx |-> j + 2]
        ELSE [parsed |-> rec, idx |-> j + 1]

\* A faulty variant: a label that is not found leaves the cursor where it was.
ScanLabel_stay(ls, i, label, rec) ==
    LET j == Advance(ls, i, label)
    IN  IF j < Len(ls) /\ ls[j + 1] = S(label) /\ (j + 1) < Len(ls)
        THEN [parsed |-> (label :> ls[j + 2]) @@ rec, idx |-> j + 2]
        ELSE [parsed |-> rec, idx |-> i]

\* Lines 60-71: one pass of the for loop over the labels.
ScanLabel(ls, i, label, rec) ==
    LET j == Advance(ls, i, label)
    IN  IF j < Len(ls) /\ ls[j + 1] = S(label) /\ (j + 1) < Len(ls)
        THEN [parsed |-> (label :> ls[j + 2]) @@ rec, idx |-> j + 2]
        ELSE [parsed |-> rec, idx |-> j + 1]

\* Lines 59-71 as a function: the record after the labels from k on.
RECURSIVE ScanLabels(_, _, _, _)
ScanLabels(ls, k, i, rec) ==
    IF k > Len(labels) THEN rec
    ELSE ScanLabels(ls, k + 1, ScanLabel(ls, i, labels[k], rec).idx,
                    ScanLabel(ls, i, labels[k], rec).parsed)

\* Lines 35-73 as a function: what one block adds to all_trades.
ParseBlock(block) ==
    LET ls == FilterLines(block)
    IN  IF TooShort(ls) THEN <<>>
        ELSE <<ScanLabels(ls, 1, BlockStart(ls).idx, BlockStart(ls).parsed)>>

RECURSIVE ParseBlocks(_)
ParseBlocks(blocks) ==
    IF blocks = <<>> THEN <<>>
    ELSE ParseBlock(Head(blocks)) \o ParseBlocks(Tail(blocks))

\* The whole of parse_trade_file as a function of the file's lines.
parse_trade_file(f) == ParseBlocks(re_split(strip(read(f))))

---------------------------------------------------------------------------
(* The inputs                                                              *)

MaxTail == 4
MaxBlocks == 2
MaxBulletTail == 2
MaxShort == 4
MaxCaseTail == 4

T(w) == <<w>>
Padded(w) == <<SP, w, SP>>
Blank == <<>>
WsOnly == <<SP>>
BulletLine == <<"Individual", SP, Glyph, SP, "Jun 2">>

RECURSIVE SeqsUpTo(_, _)
SeqsUpTo(A, n) ==
    IF n = 0 THEN {<<>>}
    ELSE LET shorter == SeqsUpTo(A, n - 1)
         IN  shorter \cup {Append(s, a) : s \in shorter, a \in A}

InsertAt(s, p, e) == SubSeq(s, 1, p) \o <<e>> \o SubSeq(s, p + 1, Len(s))
RemoveAt(s, p) == SubSeq(s, 1, p - 1) \o SubSeq(s, p + 1, Len(s))

Head1 == <<T("Buy SPY"), T("$94.00"), T("2 contracts")>>
Head2 == <<T("Type"), Padded("Status"), T("Filled")>>

TailLines == {T("Type"), T("Position effect"), T("Status"), T("Filled"), T("Credit")}

\* One block: three positional lines and a tail of labels and values.
OneBlockFiles == {h \o t : h \in {Head1, Head2}, t \in SeqsUpTo(TailLines, MaxTail)}

\* One block with a bullet line put at any place.
BulletFiles ==
    UNION { {InsertAt(Head1 \o t, p, BulletLine) : p \in 0..(3 + Len(t))}
            : t \in SeqsUpTo({T("Type"), T("Credit")}, MaxBulletTail) }

\* Short files of any lines: blank lines, bullets, form feeds, padding.
ShortLines ==
    { Blank, <<SP, FF>>, BulletLine, T("A"), Padded("Type"), <<"B", FF, FF, "C">> }
ShortFiles == SeqsUpTo(ShortLines, MaxShort)

\* Several blocks with blank lines between them.
Blocks ==
    { <<T("A")>>, <<T("A"), BulletLine, T("B")>>, <<BulletLine>>,
      Head1, Head1 \o <<T("Type"), T("Credit")>>,
      <<Padded("X"), T("Y"), T("Z"), T("Position effect"), T("Open")>>,
      Head1 \o <<T("Type")>> }
Separators == { <<Blank>>, <<WsOnly, Blank>>, <<>> }

RECURSIVE BlockFiles(_)
BlockFiles(n) ==
    IF n = 0 THEN {<<>>}
    ELSE IF n = 1 THEN Blocks
    ELSE BlockFiles(n - 1)
           \cup {f \o sep \o b : f \in BlockFiles(n - 1), sep \in Separators, b \in Blocks}

\* One block whose tail holds a label in its own and in another letter case.
CaseLines == {T("type"), T("Type"), T("Credit")}
CaseFiles == {Head1 \o t : t \in SeqsUpTo(CaseLines, MaxCaseTail)}

Files ==
    OneBlockFiles \cup BulletFiles \cup ShortFiles \cup BlockFiles(MaxBlocks)
        \cup CaseFiles

---------------------------------------------------------------------------
(* parse_trade_file as a state machine                                     *)

NoRecord == [k \in {} |-> <<>>]

\* The journal before its script has run: no database file, nothing uploaded.
JournalStart ==
    /\ db = [exists |-> FALSE, rows |-> {}, seq |-> 0]
    /\ app_pc = "idle"
    /\ uploaded_json = <<>>
    /\ uploaded_txt = <<>>
    /\ clicked = <<>>
    /\ buttons = {}
    /\ fi = 1
    /\ errors = <<>>
    /\ processed = <<>>
    /\ trades = <<>>
    /\ inserted = <<>>

\* parse_trade_file about to run on a file.
ParserStart(f) ==
    /\ file = f
    /\ pc = "open"
    /\ trade_blocks = <<>>
    /\ all_trades = <<>>
    /\ bi = 1
    /\ lines = <<>>
    /\ parsed = NoRecord
    /\ idx = 0
    /\ li = 1

Init ==
    /\ \E f \in Files : ParserStart(f)
    /\ JournalStart

\* Lines 26-33.
ReadAndSplit ==
    /\ pc = "open"
    /\ trade_blocks' = re_split(strip(read(file)))
    /\ all_trades' = <<>>
    /\ bi' = 1
    /\ pc' = "blocks"
    /\ UNCHANGED <<file, lines, parsed, idx, li>>
    /\ UNCHANGED appVars

\* Lines 35-45: a block with fewer than three lines left is skipped.
SkipBlock ==
    /\ pc = "blocks"
    /\ bi <= Len(trade_blocks)
    /\ TooShort(FilterLines(trade_blocks[bi]))
    /\ lines' = FilterLines(trade_blocks[bi])
    /\ bi' = bi + 1
    /\ UNCHANGED <<file, pc, trade_blocks, all_trades, parsed, idx, li>>
    /\ UNCHANGED appVars

\* A faulty variant: the record is created once, before the loop over the blocks, so
\* the fields of a block stay in the record of the next.
BeginBlock_hoisted ==
    /\ pc = "blocks"
    /\ bi <= Len(trade_blocks)
    /\ ~ TooShort(FilterLines(trade_blocks[bi]))
    /\ lines' = FilterLines(trade_blocks[bi])
    /\ parsed' = BlockStart(lines').parsed @@ parsed
    /\ idx' = BlockStart(lines').idx
    /\ li' = 1
    /\ pc' = "labels"
    /\ UNCHANGED <<file, trade_blocks, all_trades, bi>>
    /\ UNCHANGED appVars

\* Lines 35-59: the positional fields of a block, the cursor set at 3.
BeginBlock ==
    /\ pc = "blocks"
    /\ bi <= Len(trade_blocks)
    /\ ~ TooShort(FilterLines(trade_blocks[bi]))
    /\ lines' = FilterLines(trade_blocks[bi])
    /\ parsed' = BlockStart(lines').parsed
    /\ idx' = BlockStart(lines').idx
    /\ li' = 1
    /\ pc' = "labels"
    /\ UNCHANGED <<file, trade_blocks, all_trades, bi>>
    /\ UNCHANGED appVars

\* Lines 60-71: the pass of the for loop for labels[li].
ScanStep ==
    /\ pc = "labels"
    /\ li <= Len(labels)
    /\ parsed' = ScanLabel(lines, idx, labels[li], parsed).parsed
    /\ idx' = ScanLabel(lines, idx, labels[li], parsed).idx
    /\ li' = li + 1
    /\ UNCHANGED <<file, pc, trade_blocks, all_trades, bi, lines>>
    /\ UNCHANGED appVars

\* Line 73.
AppendTrade ==
    /\ pc = "labels"
    /\ li > Len(labels)
    /\ all_trades' = Append(all_trades, parsed)
    /\ bi' = bi + 1
    /\ pc' = "blocks"
    /\ UNCHANGED <<file, trade_blocks, lines, parsed, idx, li>>
    /\ UNCHANGED appVars

\* Line 75.
Return ==
    /\ pc = "blocks"
    /\ bi > Len(trade_blocks)
    /\ pc' = "done"
    /\ UNCHANGED <<file, trade_blocks, all_trades, bi, lines, parsed, idx, li>>
    /\ UNCHANGED appVars

Next ==
    \/ ReadAndSplit
    \/ SkipBlock
    \/ BeginBlock
    \/ ScanStep
    \/ AppendTrade
    \/ Return

Spec == Init /\ [][Next]_vars

---------------------------------------------------------------------------
(* trading_journal.py: the record store                                    *)

MaxRows == 2

\* Lines 29-46: the columns of the table besides id.
Columns ==
    { "header", "total_cost", "quantity_price", "type", "position_effect",
      "time_in_force", "submitted", "quantity", "account", "status",
      "filled_quantity", "filled", "limit_price", "est_cost", "est_reg_fees",
      "suggestion", "comment", "saved_at" }

\* Lines 180-194, 285-299: the key of the trade each column is taken from.
KeyOf(col) ==
    CASE col = "header" -> "header"
      [] col = "total_cost" -> "Total Cost"
      [] col = "quantity_price" -> "Quantity + Price"
      [] col = "type" -> "Type"
      [] col = "position_effect" -> "Position effect"
      [] col = "time_in_force" -> "Time in force"
      [] col = "submitted" -> "Submitted"
      [] col = "quantity" -> "Quantity"
      [] col = "account" -> "Account"
      [] col = "status" -> "Status"
      [] col = "filled_quantity" -> "Filled quantity"
      [] col = "filled" -> "Filled"
      [] col = "limit_price" -> "Limit price"
      [] col = "est_cost" -> "Est cost"
      [] col = "est_reg_fees" -> "Est regulatory fees"

\* dict.get(key, "").
Get(d, key) == IF key \in DOMAIN d THEN d[key] ELSE <<>>

\* Lines 179-198, 284-303: the record of a Save click; no field was edited,
\* so each text input holds the value of the trade.
BuildRecord(trade_data, suggestion, comment, saved_at) ==
    [col \in Columns |->
        CASE col = "suggestion" -> suggestion
          [] col = "comment" -> comment
          [] col = "saved_at" -> saved_at
          [] OTHER -> Get(trade_data, KeyOf(col))]

\* A datetime: the second and the microsecond; the date, hour and minute,
\* which isoformat writes first and at fixed width, are the same throughout.
Times ==
    { [sec |-> 9, us |-> 0], [sec |-> 10, us |-> 0],
      [sec |-> 10, us |-> 5], [sec |-> 10, us |-> 40] }

Earlier(t, u) == t.sec < u.sec \/ (t.sec = u.sec /\ t.us < u.us)

DigitChars == <<"0", "1", "2", "3", "4", "5", "6", "7", "8", "9">>

\* n in decimal, zero-padded to w digits.
RECURSIVE Digits(_, _)
Digits(n, w) ==
    IF w = 0 THEN <<>> ELSE Digits(n \div 10, w - 1) \o <<DigitChars[(n % 10) + 1]>>

\* Line 197, 302: datetime.isoformat(): SS, then .ffffff unless the
\* microsecond is 0.
isoformat(t) ==
    Digits(t.sec, 2) \o (IF t.us = 0 THEN <<>> ELSE <<".">> \o Digits(t.us, 6))

\* The code point of a character of a timestamp.
Code(c) ==
    IF c = "." THEN 46 ELSE 47 + (CHOOSE k \in 1..10 : DigitChars[k] = c)

\* Line 85: the order of ORDER BY on a TEXT column (BINARY collation): byte
\* by byte, a proper prefix first.
RECURSIVE TextLess(_, _)
TextLess(a, b) ==
    IF b = <<>> THEN FALSE
    ELSE IF a = <<>> THEN TRUE
    ELSE IF Code(Head(a)) # Code(Head(b)) THEN Code(Head(a)) < Code(Head(b))
    ELSE TextLess(Tail(a), Tail(b))

\* A faulty variant: the table is dropped and created again.
init_db_recreate(d) == [exists |-> TRUE, rows |-> {}, seq |-> 0]

\* Lines 19-51: CREATE TABLE IF NOT EXISTS.
init_db(d) ==
    IF d.exists THEN d ELSE [exists |-> TRUE, rows |-> {}, seq |-> 0]

\* Lines 53-77: INSERT; id is AUTOINCREMENT, one more than the largest id
\* the table has given out.  The table exists: the script runs init_db
\* before anything else.
insert_trade(d, record) ==
    [d EXCEPT !.rows = @ \cup {record @@ ("id" :> d.seq + 1)},
              !.seq = @ + 1]

Perms(R) ==
    {p \in [1..Cardinality(R) -> R] :
        \A i, j \in 1..Cardinality(R) : i # j => p[i] # p[j]}

\* A faulty variant: ORDER BY saved_at ASC.
fetch_all_trades_asc(d) ==
    {p \in Perms(d.rows) :
        \A i, j \in 1..Len(p) : i < j => ~ TextLess(p[j]["saved_at"], p[i]["saved_at"])}

\* Lines 79-92: SELECT * FROM trades ORDER BY saved_at DESC.  SQL leaves the
\* order of rows with equal saved_at open: every result it allows.
fetch_all_trades(d) ==
    {p \in Perms(d.rows) :
        \A i, j \in 1..Len(p) : i < j => ~ TextLess(p[i]["saved_at"], p[j]["saved_at"])}

---------------------------------------------------------------------------
(* trading_journal.py: the uploads                                         *)

Dict1 == ("header" :> S("Sell QQQ $400 Put 8/15")) @@ ("Total Cost" :> S("$120.00"))
            @@ ("Type" :> S("Debit"))
Dict2 == ("header" :> S("Buy IWM $210 Call 9/19"))

\* A .json upload: what uploaded.read().decode("utf-8") and json.loads make
\* of it.  kind "broken": one of them raises (the bytes cannot be read, are
\* not UTF-8, or are not JSON); "scalar": a JSON value that is neither an
\* object nor an array; an array holds objects.
JsonObject == [name |-> "one.json", kind |-> "object", value |-> <<Dict1>>]
JsonArray == [name |-> "two.json", kind |-> "array", value |-> <<Dict2>>]
JsonBroken == [name |-> "bad.json", kind |-> "broken", value |-> <<>>]
JsonScalar == [name |-> "num.json", kind |-> "scalar", value |-> <<>>]

\* A .txt upload.  kind "unreadable": uploaded.read() raises; "undecodable":
\* the bytes are not UTF-8; "text": the lines of the text.
TxtTrade ==
    [name |-> "fills.txt", kind |-> "text", lines |-> Head1 \o <<T("Type"), T("Credit")>>]
TxtNoTrade == [name |-> "notes.txt", kind |-> "text", lines |-> <<T("A"), BulletLine>>]
TxtUnreadable == [name |-> "gone.txt", kind |-> "unreadable", lines |-> <<>>]
TxtUndecodable == [name |-> "latin1.txt", kind |-> "undecodable", lines |-> <<>>]

JsonUploads ==
    { <<>>, <<JsonBroken, JsonObject>>, <<JsonScalar, JsonArray>> }
TxtUploads ==
    { <<>>, <<TxtUnreadable, TxtTrade>>, <<TxtUndecodable, TxtTrade>>,
      <<TxtNoTrade, TxtTrade>> }

\* What the user types in the Comment box.
Comments == { S("sized too big") }

\* Lines 177, 282: the label of a Save button.
SaveButton(mode, name, i) == <<mode, name, i>>

\* The parser is not running.
ParserIdle ==
    /\ file = <<>>
    /\ pc = "idle"
    /\ trade_blocks = <<>>
    /\ all_trades = <<>>
    /\ bi = 1
    /\ lines = <<>>
    /\ parsed = NoRecord
    /\ idx = 0
    /\ li = 1

AppInit ==
    /\ ParserIdle
    /\ JournalStart

\* The page is loaded again, or the user changes the uploads: the script
\* runs from the top with no button clicked.
UserUploads ==
    /\ app_pc \in {"idle", "crashed"}
    /\ \E uj \in JsonUploads, ut \in TxtUploads :
          /\ uploaded_json' = uj
          /\ uploaded_txt' = ut
    /\ clicked' = <<>>
    /\ buttons' = {}
    /\ errors' = <<>>
    /\ processed' = <<>>
    /\ trades' = <<>>
    /\ fi' = 1
    /\ app_pc' = "init_db"
    /\ UNCHANGED <<db, inserted>>
    /\ UNCHANGED parserVars

\* The user clicks a Save button of the page: the script runs from the top
\* with that button clicked.
UserClicks ==
    /\ app_pc \in {"idle", "crashed"}
    /\ Len(inserted) < MaxRows
    /\ \E b \in buttons : clicked' = b
    /\ buttons' = {}
    /\ errors' = <<>>
    /\ processed' = <<>>
    /\ trades' = <<>>
    /\ fi' = 1
    /\ app_pc' = "init_db"
    /\ UNCHANGED <<db, inserted, uploaded_json, uploaded_txt>>
    /\ UNCHANGED parserVars

\* Line 100.
RunInitDb ==
    /\ app_pc = "init_db"
    /\ db' = init_db(db)
    /\ app_pc' = "json"
    /\ UNCHANGED <<uploaded_json, uploaded_txt, clicked, buttons, fi, errors,
                   processed, trades, inserted>>
    /\ UNCHANGED parserVars

\* Lines 138-200, 243-305: the trades of one file are put on the page, each
\* with its Save button; the trade whose button was clicked is inserted with
\* the time of the clock.
ShowTrades(mode, name, trades_list) ==
    /\ buttons' = buttons \cup {SaveButton(mode, name, i) : i \in 1..Len(trades_list)}
    /\ IF \E i \in 1..Len(trades_list) : clicked = SaveButton(mode, name, i)
       THEN \E now \in Times, comment \in Comments :
               LET i == CHOOSE k \in 1..Len(trades_list) : clicked = SaveButton(mode, name, k)
                   record == BuildRecord(trades_list[i], <<>>, comment, isoformat(now))
               IN  /\ db' = insert_trade(db, record)
                   /\ inserted' = Append(inserted,
                                         [id |-> db.seq + 1, record |-> record, at |-> now])
       ELSE UNCHANGED <<db, inserted>>

\* Lines 116-121: the file cannot be read, decoded or parsed as JSON.
JsonFileBroken ==
    /\ app_pc = "json"
    /\ fi <= Len(uploaded_json)
    /\ uploaded_json[fi].kind = "broken"
    /\ errors' = Append(errors, [file |-> uploaded_json[fi].name, what |-> "Could not parse as JSON"])
    /\ processed' = Append(processed, uploaded_json[fi].name)
    /\ fi' = fi + 1
    /\ UNCHANGED <<db, app_pc, uploaded_json, uploaded_txt, clicked, buttons, trades, inserted>>
    /\ UNCHANGED parserVars

\* Lines 116-130: the JSON value is neither an object nor an array.
JsonFileScalar ==
    /\ app_pc = "json"
    /\ fi <= Len(uploaded_json)
    /\ uploaded_json[fi].kind = "scalar"
    /\ errors' = Append(errors, [file |-> uploaded_json[fi].name, what |-> "does not contain a JSON object or array"])
    /\ processed' = Append(processed, uploaded_json[fi].name)
    /\ fi' = fi + 1
    /\ UNCHANGED <<db, app_pc, uploaded_json, uploaded_txt, clicked, buttons, trades, inserted>>
    /\ UNCHANGED parserVars

\* Lines 116-200: an object, or an array of objects.
JsonFileTrades ==
    /\ app_pc = "json"
    /\ fi <= Len(uploaded_json)
    /\ uploaded_json[fi].kind \in {"object", "array"}
    /\ ShowTrades("JSON", uploaded_json[fi].name, uploaded_json[fi].value)
    /\ processed' = Append(processed, uploaded_json[fi].name)
    /\ fi' = fi + 1
    /\ UNCHANGED <<app_pc, uploaded_json, uploaded_txt, clicked, errors, trades>>
    /\ UNCHANGED parserVars

\* Lines 114-115, 202: the loop over the .json uploads is over.
JsonLoopEnd ==
    /\ app_pc = "json"
    /\ fi > Len(uploaded_json)
    /\ app_pc' = "txt"
    /\ fi' = 1
    /\ UNCHANGED <<db, uploaded_json, uploaded_txt, clicked, buttons, errors,
                   processed, trades, inserted>>
    /\ UNCHANGED parserVars

\* Lines 220-228: uploaded.read() or the write to the temporary file raises.
TxtFileUnreadable ==
    /\ app_pc = "txt"
    /\ fi <= Len(uploaded_txt)
    /\ uploaded_txt[fi].kind = "unreadable"
    /\ errors' = Append(errors, [file |-> uploaded_txt[fi].name, what |-> "Could not write to temp file"])
    /\ processed' = Append(processed, uploaded_txt[fi].name)
    /\ fi' = fi + 1
    /\ UNCHANGED <<db, app_pc, uploaded_json, uploaded_txt, clicked, buttons, trades, inserted>>
    /\ UNCHANGED parserVars

\* Lines 220-231 and formatter.py:26-27: the bytes are written to the
\* temporary file; f.read() in parse_trade_file raises UnicodeDecodeError,
\* line 231 is in no try block, and the run of the script ends there.
TxtFileUndecodable ==
    /\ app_pc = "txt"
    /\ fi <= Len(uploaded_txt)
    /\ uploaded_txt[fi].kind = "undecodable"
    /\ app_pc' = "crashed"
    /\ UNCHANGED <<db, uploaded_json, uploaded_txt, clicked, buttons, fi, errors,
                   processed, trades, inserted>>
    /\ UNCHANGED parserVars

\* Lines 220-235: the text holds no block of three lines.
TxtFileNoTrades ==
    /\ app_pc = "txt"
    /\ fi <= Len(uploaded_txt)
    /\ uploaded_txt[fi].kind = "text"
    /\ parse_trade_file(uploaded_txt[fi].lines) = <<>>
    /\ processed' = Append(processed, uploaded_txt[fi].name)
    /\ fi' = fi + 1
    /\ UNCHANGED <<db, app_pc, uploaded_json, uploaded_txt, clicked, buttons, errors,
                   trades, inserted>>
    /\ UNCHANGED parserVars

\* Lines 220-305: the trades parse_trade_file finds in the text.
TxtFileTrades ==
    /\ app_pc = "txt"
    /\ fi <= Len(uploaded_txt)
    /\ uploaded_txt[fi].kind = "text"
    /\ parse_trade_file(uploaded_txt[fi].lines) # <<>>
    /\ ShowTrades("TXT", uploaded_txt[fi].name, parse_trade_file(uploaded_txt[fi].lines))
    /\ processed' = Append(processed, uploaded_txt[fi].name)
    /\ fi' = fi + 1
    /\ UNCHANGED <<app_pc, uploaded_json, uploaded_txt, clicked, errors, trades>>
    /\ UNCHANGED parserVars

\* Lines 217-218, 310: the loop over the .txt uploads is over.
TxtLoopEnd ==
    /\ app_pc = "txt"
    /\ fi > Len(uploaded_txt)
    /\ app_pc' = "view"
    /\ UNCHANGED <<db, uploaded_json, uploaded_txt, clicked, buttons, fi, errors,
                   processed, trades, inserted>>
    /\ UNCHANGED parserVars

\* Line 317: the saved trades are fetched for the table of the page.
ViewTrades ==
    /\ app_pc = "view"
    /\ trades' \in fetch_all_trades(db)
    /\ app_pc' = "idle"
    /\ UNCHANGED <<db, uploaded_json, uploaded_txt, clicked, buttons, fi, errors,
                   processed, inserted>>
    /\ UNCHANGED parserVars

AppNext ==
    \/ UserUploads
    \/ UserClicks
    \/ RunInitDb
    \/ JsonFileBroken
    \/ JsonFileScalar
    \/ JsonFileTrades
    \/ JsonLoopEnd
    \/ TxtFileUnreadable
    \/ TxtFileUndecodable
    \/ TxtFileNoTrades
    \/ TxtFileTrades
    \/ TxtLoopEnd
    \/ ViewTrades

AppSpec == AppInit /\ [][AppNext]_vars

---------------------------------------------------------------------------
(* The vocabulary of the properties, stated on the lines of the file and   *)
(* not through the operators of the parser                                 *)

Keys3 == {"header", "Total Cost", "Quantity + Price"}

\* The number of a label in the declared list, 0 for any other line.
LabelNo(line) ==
    IF \E k \in 1..Len(labels) : line = <<labels[k]>>
    THEN CHOOSE k \in 1..Len(labels) : line = <<labels[k]>>
    ELSE 0

HasGlyph(line) == \E k \in 1..Len(line) : line[k] = Glyph
IsBlankLine(line) == \A k \in 1..Len(line) : line[k] \in {SP, FF}

\* The blank-line-delimited blocks of a file: the maximal runs of lines
\* that are not blank, each as <<first, last>>.
RunEnd(f, a) == Max({b \in a..Len(f) : \A j \in a..b : ~ IsBlankLine(f[j])})
RECURSIVE BlockRangesFrom(_, _)
BlockRangesFrom(f, a) ==
    IF a > Len(f) THEN <<>>
    ELSE IF IsBlankLine(f[a]) THEN BlockRangesFrom(f, a + 1)
    ELSE << <<a, RunEnd(f, a)>> >> \o BlockRangesFrom(f, RunEnd(f, a) + 1)
BlockRanges(f) == BlockRangesFrom(f, 1)
BlockOf(f, r) == SubSeq(f, r[1], r[2])

\* A line of the file holds several lines when it holds form feeds.
RECURSIVE PiecesOf(_)
PiecesOf(line) ==
    LET ffs == {k \in 1..Len(line) : line[k] = FF}
    IN  IF ffs = {} THEN <<line>>
        ELSE <<SubSeq(line, 1, Min(ffs) - 1)>>
                 \o PiecesOf(SubSeq(line, Min(ffs) + 1, Len(line)))

Trimmed(piece) ==
    LET ink == {k \in 1..Len(piece) : piece[k] # SP}
    IN  IF ink = {} THEN <<>> ELSE SubSeq(piece, Min(ink), Max(ink))

Usable(piece) == piece # <<>> /\ ~ HasGlyph(piece)

\* The lines of a block that remain after trimming, dropping the empty
\* lines and dropping the lines that contain the glyph.
RECURSIVE UsableLines(_)
UsableLines(block) ==
    IF block = <<>> THEN <<>>
    ELSE LET ps == PiecesOf(Head(block))
         IN  SelectSeq([k \in 1..Len(ps) |-> Trimmed(ps[k])], Usable)
                 \o UsableLines(Tail(block))

\* The usable lines of each block that has at least three of them, in the
\* order of the file.
RECURSIVE ValidBlocksOf(_, _)
ValidBlocksOf(f, rs) ==
    IF rs = <<>> THEN <<>>
    ELSE (IF Len(UsableLines(BlockOf(f, Head(rs)))) >= 3
          THEN <<UsableLines(BlockOf(f, Head(rs)))>> ELSE <<>>)
             \o ValidBlocksOf(f, Tail(rs))
ValidBlocks(f) == ValidBlocksOf(f, BlockRanges(f))

Done == pc = "done"

MinimalBlock == <<S("Buy SPY $645 Call 7/31"), S("$94.00"), S("2 contracts at $0.47")>>
MinimalRecord ==
    [k \in Keys3 |-> CASE k = "header" -> S("Buy SPY $645 Call 7/31")
                       [] k = "Total Cost" -> S("$94.00")
                       [] k = "Quantity + Price" -> S("2 contracts at $0.47")]

---------------------------------------------------------------------------
(* C1 *)

\* The lines after the three positional ones are (label, value) pairs whose
\* labels come in declared order.
PairsInLabelOrder(ls) ==
    /\ Len(ls) >= 3
    /\ (Len(ls) - 3) % 2 = 0
    /\ \A p \in 1..((Len(ls) - 3) \div 2) :
          /\ LabelNo(ls[2 * p + 2]) > 0
          /\ p > 1 => LabelNo(ls[2 * p]) < LabelNo(ls[2 * p + 2])

\* C1: every block whose lines after the three positional ones are (label,
\* value) pairs for a subset of the labels, in declared order, gives a record
\* in which each label of the block maps to its value line (Type, Credit,
\* Status, Filled gives Type = Credit and Status = Filled).
C1_PairsAllCaptured ==
    Done =>
        \A n \in 1..Len(ValidBlocks(file)) :
            LET ls == ValidBlocks(file)[n]
            IN  PairsInLabelOrder(ls) =>
                    /\ n <= Len(all_trades)
                    /\ \A p \in 1..((Len(ls) - 3) \div 2) :
                          /\ ls[2 * p + 2][1] \in DOMAIN all_trades[n]
                          /\ all_trades[n][ls[2 * p + 2][1]] = ls[2 * p + 3]

---------------------------------------------------------------------------
(* C2 *)

\* The file with the block at range r replaced by a minimal valid block.
WithMinimalBlock(f, r) ==
    SubSeq(f, 1, r[1] - 1) \o MinimalBlock \o SubSeq(f, r[2] + 1, Len(f))

\* The number of blocks before the i-th that have three usable lines.
ValidBefore(f, i) ==
    Cardinality({j \in 1..(i - 1) :
                    Len(UsableLines(BlockOf(f, BlockRanges(f)[j]))) >= 3})

\* C2: a block yields a record exactly when at least three lines remain
\* after trimming and dropping the empty and the glyph lines; a shorter
\* block yields nothing and leaves the records of the other blocks as they
\* are: the output is the output for the file with a minimal valid block in
\* its place, less that one record.
C2_RecordIffThreeLines ==
    Done =>
        /\ Len(all_trades) = Len(ValidBlocks(file))
        /\ \A i \in 1..Len(BlockRanges(file)) :
              LET r == BlockRanges(file)[i]
                  v == parse_trade_file(WithMinimalBlock(file, r))
                  n == ValidBefore(file, i) + 1
              IN  Len(UsableLines(BlockOf(file, r))) < 3 =>
                      /\ Len(v) = Len(all_trades) + 1
                      /\ v[n] = MinimalRecord
                      /\ RemoveAt(v, n) = all_trades

\* A file of two blocks and a glyph line, the first block with one or two
\* usable lines, the second valid: one record, that of the second block.
C2_Witness ==
    /\ Done
    /\ Len(BlockRanges(file)) = 2
    /\ Len(UsableLines(BlockOf(file, BlockRanges(file)[1]))) \in 1..2
    /\ \E j \in 1..Len(file) : HasGlyph(file[j])
    /\ Len(UsableLines(BlockOf(file, BlockRanges(file)[2]))) >= 3
    /\ Len(all_trades) = 1

---------------------------------------------------------------------------
(* C3 *)

\* C3: a line that contains the glyph, put anywhere in a block, changes
\* nothing: the result for the file is the result for the file without
\* that line.
C3_GlyphLineIgnored ==
    Done =>
        \A p \in 1..Len(file) :
            (HasGlyph(file[p]) /\ \A k \in 1..Len(file[p]) : file[p][k] # FF)
                => all_trades = parse_trade_file(RemoveAt(file, p))

\* A glyph line between a label and its value, and the value is captured.
C3_Witness ==
    /\ Done
    /\ \E p \in 2..(Len(file) - 1) :
          /\ HasGlyph(file[p])
          /\ file[p - 1] = S("Type")
          /\ Len(all_trades) = 1
          /\ "Type" \in DOMAIN all_trades[1]
          /\ all_trades[1]["Type"] = file[p + 1]

---------------------------------------------------------------------------
(* C4 *)

RECURSIVE EachBlockAlone(_, _)
EachBlockAlone(f, rs) ==
    IF rs = <<>> THEN <<>>
    ELSE parse_trade_file(BlockOf(f, Head(rs))) \o EachBlockAlone(f, Tail(rs))

\* C4: the records of a file are the records of its blank-line-delimited
\* blocks, each parsed on its own, put together in the order of the blocks.
C4_BlocksIndependent ==
    Done => all_trades = EachBlockAlone(file, BlockRanges(file))

\* Two blocks, two records, the first with a labeled field the second has
\* not.
C4_Witness ==
    /\ Done
    /\ Len(BlockRanges(file)) = 2
    /\ Len(all_trades) = 2
    /\ "Type" \in DOMAIN all_trades[1]
    /\ "Type" \notin DOMAIN all_trades[2]
    /\ all_trades[1]["header"] # all_trades[2]["header"]

---------------------------------------------------------------------------
(* C5 *)

\* C5: the header, Total Cost and Quantity + Price of a record are the
\* first three usable lines of its block whatever they hold, and a block of
\* exactly three usable lines gives a record with no labeled field.
C5_PositionalFields ==
    Done =>
        /\ Len(all_trades) = Len(ValidBlocks(file))
        /\ \A n \in 1..Len(all_trades) :
              LET ls == ValidBlocks(file)[n]
              IN  /\ Keys3 \subseteq DOMAIN all_trades[n]
                  /\ all_trades[n]["header"] = ls[1]
                  /\ all_trades[n]["Total Cost"] = ls[2]
                  /\ all_trades[n]["Quantity + Price"] = ls[3]
                  /\ Len(ls) = 3 => DOMAIN all_trades[n] = Keys3

\* A block of exactly three lines, each of them a label string.
C5_Witness ==
    /\ Done
    /\ Len(ValidBlocks(file)) = 1
    /\ Len(ValidBlocks(file)[1]) = 3
    /\ \A k \in 1..3 : LabelNo(ValidBlocks(file)[1][k]) > 0
    /\ Len(all_trades) = 1
    /\ all_trades[1]["header"] = S("Type")

---------------------------------------------------------------------------
(* C6 *)

\* The row the store holds for a call of insert_trade.
RowOf(e) == e.record @@ ("id" :> e.id)

\* The time at which a row was saved.
SavedAt(row) == (CHOOSE k \in 1..Len(inserted) : inserted[k].id = row["id"])

\* C6: what fetch_all_trades returns holds every inserted row exactly once,
\* and no row comes before a row that was saved at a later time: of two
\* rows saved at different times the more recent comes first.
C6_ListAllNewestFirst ==
    app_pc = "idle" =>
        /\ Len(trades) = Len(inserted)
        /\ \A k \in 1..Len(inserted) :
              Cardinality({i \in 1..Len(trades) : trades[i] = RowOf(inserted[k])}) = 1
        /\ \A i, j \in 1..Len(trades) :
              i < j => ~ Earlier(inserted[SavedAt(trades[i])].at,
                                 inserted[SavedAt(trades[j])].at)

\* Two inserts, the second at the earlier time: the row of the first insert
\* is listed first.
C6_Witness ==
    /\ app_pc = "idle"
    /\ Len(inserted) = 2
    /\ Earlier(inserted[2].at, inserted[1].at)
    /\ trades = <<RowOf(inserted[1]), RowOf(inserted[2])>>

---------------------------------------------------------------------------
(* C7 *)

\* C7: at every point of every run of the script the table holds exactly
\* one row for each insert_trade call made so far, with the values of that
\* call, and no two rows share an id; init_db and fetch_all_trades, which
\* every run calls, leave the rows as they are, and the same record
\* inserted twice is two rows.
C7_AppendOnly ==
    /\ Cardinality(db.rows) = Len(inserted)
    /\ \A k \in 1..Len(inserted) :
          \E r \in db.rows :
              /\ r["id"] = inserted[k].id
              /\ \A col \in Columns : r[col] = inserted[k].record[col]
    /\ \A r1, r2 \in db.rows : r1["id"] = r2["id"] => r1 = r2

\* The same record, with the same time, inserted twice, and the script run
\* to its end again: two rows.
C7_Witness ==
    /\ app_pc = "idle"
    /\ Len(inserted) = 2
    /\ inserted[1].record = inserted[2].record
    /\ Cardinality(db.rows) = 2
    /\ Len(trades) = 2

---------------------------------------------------------------------------
(* C8 *)

ErrorNames(name) == \E k \in 1..Len(errors) : errors[k].file = name
Processed(name) == \E k \in 1..Len(processed) : processed[k] = name

\* C8: when a run of the script is over, every upload that could not be
\* read or decoded (a .json that is unreadable, not UTF-8 or not JSON; a
\* .txt that is unreadable or not UTF-8) has an error that names it, and
\* every upload of both loops has been processed.
C8_DecodeFailureReported ==
    app_pc \in {"idle", "crashed"} =>
        /\ \A k \in 1..Len(uploaded_json) :
              /\ uploaded_json[k].kind = "broken" => ErrorNames(uploaded_json[k].name)
              /\ Processed(uploaded_json[k].name)
        /\ \A k \in 1..Len(uploaded_txt) :
              /\ uploaded_txt[k].kind \in {"unreadable", "undecodable"}
                    => ErrorNames(uploaded_txt[k].name)
              /\ Processed(uploaded_txt[k].name)

---------------------------------------------------------------------------
(* C9 *)

Occurrences(ls, w) == {k \in 1..Len(ls) : ls[k] = <<w>>}

\* C9: when labels A (declared earlier) and B (declared later) each occur
\* exactly once as a line of a block and B's line comes before A's line, B
\* is absent from the record.
C9_OutOfOrderLabelMissed ==
    Done =>
        \A n \in 1..Len(ValidBlocks(file)) :
            LET ls == ValidBlocks(file)[n]
            IN  \A a \in 1..Len(labels) : \A b \in (a + 1)..Len(labels) :
                    ( /\ Cardinality(Occurrences(ls, labels[a])) = 1
                      /\ Cardinality(Occurrences(ls, labels[b])) = 1
                      /\ Max(Occurrences(ls, labels[b])) < Max(Occurrences(ls, labels[a])) )
                    => /\ n <= Len(all_trades)
                       /\ labels[b] \notin DOMAIN all_trades[n]

\* Position effect, its value, Type, its value: Type is captured and
\* Position effect, which would be captured after Type, is not.
C9_Witness ==
    /\ Done
    /\ Len(ValidBlocks(file)) = 1
    /\ Len(ValidBlocks(file)[1]) = 7
    /\ SubSeq(ValidBlocks(file)[1], 4, 7)
           = <<S("Position effect"), S("Credit"), S("Type"), S("Credit")>>
    /\ Len(all_trades) = 1
    /\ "Type" \in DOMAIN all_trades[1]
    /\ "Position effect" \notin DOMAIN all_trades[1]

---------------------------------------------------------------------------
(* C10 *)

\* The places (1-based) at or after cursor i where the line is the label.
FromCursor(ls, i, w) == {k \in (i + 1)..Len(ls) : ls[k] = <<w>>}

\* C10: the pass for a label captures the line after the first occurrence
\* of the label at or after the cursor, when there is such a line, and
\* nothing else; the label has no value before its pass and no pass changes
\* a value captured before.
C10_FirstOccurrenceOnly ==
    [][ (pc = "labels" /\ li <= Len(labels) /\ li' = li + 1) =>
          LET w == labels[li]
              occ == FromCursor(lines, idx, w)
          IN  /\ w \notin DOMAIN parsed
              /\ \A k \in DOMAIN parsed :
                    k \in DOMAIN parsed' /\ parsed'[k] = parsed[k]
              /\ DOMAIN parsed' \subseteq DOMAIN parsed \cup {w}
              /\ w \in DOMAIN parsed' <=> (occ # {} /\ Min(occ) < Len(lines))
              /\ w \in DOMAIN parsed' => parsed'[w] = lines[Min(occ) + 1]
      ]_vars

\* Type occurs twice after the positional lines with different lines after
\* it, and the record holds the first.
C10_Witness ==
    /\ pc = "labels"
    /\ li > Len(labels)
    /\ Cardinality(FromCursor(lines, 3, "Type")) = 2
    /\ Max(FromCursor(lines, 3, "Type")) < Len(lines)
    /\ lines[Min(FromCursor(lines, 3, "Type")) + 1]
           # lines[Max(FromCursor(lines, 3, "Type")) + 1]
    /\ "Type" \in DOMAIN parsed
    /\ parsed["Type"] = lines[Min(FromCursor(lines, 3, "Type")) + 1]

---------------------------------------------------------------------------
(* C11 *)

LabelStrings == {labels[k] : k \in 1..Len(labels)}

\* C11: every labeled field of a record is sound: a record holds only the
\* three positional keys and labels, and for a label L with value v the
\* usable lines of the block hold, after the three positional ones, a line
\* that is exactly L (in that letter case) followed by a line that is v,
\* taken as it is even when v is a label string; a label whose only
\* occurrence after the positional lines is the last line gives no field.
C11_LabeledFieldsSound ==
    Done =>
        /\ Len(all_trades) = Len(ValidBlocks(file))
        /\ \A n \in 1..Len(all_trades) :
              LET ls == ValidBlocks(file)[n]
                  rec == all_trades[n]
              IN  /\ DOMAIN rec \subseteq Keys3 \cup LabelStrings
                  /\ \A L \in DOMAIN rec \ Keys3 :
                        \E k \in 4..(Len(ls) - 1) :
                            ls[k] = <<L>> /\ ls[k + 1] = rec[L]
                  /\ \A L \in LabelStrings :
                        FromCursor(ls, 3, L) = {Len(ls)} => L \notin DOMAIN rec

\* The tail type, Credit, Type, Type: the line after "type" is not taken,
\* Type has the value "Type", itself a label string, and the last line, a
\* label with no line after it, gives nothing more.
C11_Witness ==
    /\ Done
    /\ Len(ValidBlocks(file)) = 1
    /\ Len(ValidBlocks(file)[1]) = 7
    /\ SubSeq(ValidBlocks(file)[1], 4, 7)
           = <<S("type"), S("Credit"), S("Type"), S("Type")>>
    /\ Len(all_trades) = 1
    /\ "Type" \in DOMAIN all_trades[1]
    /\ all_trades[1]["Type"] = S("Type")
    /\ DOMAIN all_trades[1] = Keys3 \cup {"Type"}

---------------------------------------------------------------------------
(* C12 *)

\* C12: in every record the labels present are a prefix of the declared
\* list: when a label is captured, every label declared before it is
\* captured too.
C12_CapturedLabelsArePrefix ==
    Done =>
        \A n \in 1..Len(all_trades) :
            \A k \in 1..Len(labels) :
                labels[k] \in DOMAIN all_trades[n] =>
                    \A j \in 1..(k - 1) : labels[j] \in DOMAIN all_trades[n]

\* Type, its value, Status, its value: Position effect is not in the block,
\* so Status, declared after it and followed by a line, is not captured.
C12_Witness ==
    /\ Done
    /\ Len(ValidBlocks(file)) = 1
    /\ Len(all_trades) = 1
    /\ "Type" \in DOMAIN all_trades[1]
    /\ "Position effect" \notin DOMAIN all_trades[1]
    /\ "Status" \notin DOMAIN all_trades[1]
    /\ \E k \in 6..(Len(ValidBlocks(file)[1]) - 1) :
          ValidBlocks(file)[1][k] = S("Status")

=============================================================================
